---------------------------- MODULE Spec2Model ----------------------------
(***************************************************************************)
(* Model of pkg/maps/multicast/subscribermap.go: the outer table of IPv4   *)
(* multicast groups (GroupV4OuterMap), whose values refer to per-group     *)
(* inner tables of subscribers (SubscriberV4InnerMap).                     *)
(*                                                                         *)
(* The table service (github.com/cilium/ebpf and the kernel) is the        *)
(* environment.  Its calls are modelled by the Map* operators below: an    *)
(* insert-if-absent, a lookup, a delete, sequential iteration and a bulk   *)
(* fetch with a cursor.  Every call may also fail with a lower-level       *)
(* error ("Internal"), chosen nondeterministically by the environment.     *)
(***************************************************************************)
EXTENDS Integers, Sequences, FiniteSets, TLC

(***************************************************************************)
(* Bounds of the model.  MaxGroups and MaxSubscribers are the two table    *)
(* capacities, scaled down from 1024 (subscribermap.go lines 32 and 34) so *)
(* that a full table is reachable.                                         *)
(***************************************************************************)
MaxGroups == 2

MaxSubscribers == 1

\* How many inner tables the kernel can hold at once.
MaxTables == 3

\* One address more than the capacity, so that a full table meets a new key.
NumGroupAddrs == MaxGroups + 1

NumSubAddrs == MaxSubscribers + 1

VARIABLES
    outer,      \* the outer table: a set of entries [k |-> GroupV4Key, v |-> table id]
    inner,      \* live inner tables: table id -> set of entries [k |-> key, v |-> SubscriberV4Val]
    fds,        \* ids of the inner tables whose handle opened by Insert is still open
    acc,        \* ids of the inner tables a caller holds an accessor to (returned by
                \* Lookup); the caller gives up the accessor it held on its next Lookup
    last,       \* history: the last completed operation and what it returned; during
                \* a listing, the listing and what its last fetch returned
    batchLookupSupported,   \* GroupV4OuterMap.batchLookupSupported
    lpc,        \* position of the running listing
    order,      \* the order in which the table service enumerates the listed table
    cursor,     \* how many entries the service has delivered so far (opaque cursor / iterator)
    keys,       \* keys buffer of the running batch listing
    vals,       \* vals buffer of the running batch listing
    count,      \* sum of the counts returned by the bulk fetches
    out,        \* result slice of the listing
    lerr,       \* error returned by the listing
    tick,       \* parity of the number of bulk fetches the running listing has made
    inst,       \* the GroupV4OuterMap instance: how it was obtained, whether its table is open
    probe,      \* history: the runs of haveBatchLookupSupport on the instance
    ctx         \* execution contexts running Insert step by step: context -> position and locals

tblVars == <<outer, inner, fds, acc>>

listVars == <<lpc, order, cursor, keys, vals, count, out, lerr, tick>>

instVars == <<batchLookupSupported, inst, probe>>

vars == <<outer, inner, fds, acc, last, batchLookupSupported,
          lpc, order, cursor, keys, vals, count, out, lerr, tick, inst, probe, ctx>>

----------------------------------------------------------------------------
(***************************************************************************)
(* netip.Addr: z is the address family tag ("z0" the zero Addr, "z4" IPv4, *)
(* "z6" IPv6, which includes IPv4-mapped IPv6), b its octets.              *)
(***************************************************************************)
V4(a, b, c, d) == [z |-> "z4", b |-> <<a, b, c, d>>]

V6(hi, lo) == [z |-> "z6", b |-> <<hi, 2, 0, 0, 0, 0, 0, 0, 0, 0, 0, 0, 0, 0, 0, lo>>]

\* ::ffff:224.0.0.5, an IPv4-mapped IPv6 address
V4In6 == [z |-> "z6", b |-> <<0, 0, 0, 0, 0, 0, 0, 0, 0, 0, 255, 255, 224, 0, 0, 5>>]

ZeroAddr == [z |-> "z0", b |-> <<>>]

Is4(ip) == ip.z = "z4"

Is6(ip) == ip.z = "z6"

\* netip.Addr.IsMulticast: 224.0.0.0/4 for IPv4, ff00::/8 for IPv6.
IsMulticast(ip) ==
    IF Is4(ip) THEN ip.b[1] \div 16 = 14
    ELSE IF Is6(ip) THEN ip.b[1] = 255
    ELSE FALSE

As4(ip) == ip.b

\* netip.AddrFromSlice: 4 octets give an IPv4 address, 16 an IPv6 one.
AddrFromSlice(s) ==
    IF Len(s) = 4 THEN [ok |-> TRUE, addr |-> [z |-> "z4", b |-> s]]
    ELSE IF Len(s) = 16 THEN [ok |-> TRUE, addr |-> [z |-> "z6", b |-> s]]
    ELSE [ok |-> FALSE, addr |-> ZeroAddr]

ZeroKey == <<0, 0, 0, 0>>

\* NewGroupV4KeyFromNetIPAddr with the multicast test left out.
NewGroupV4KeyFromNetIPAddr_NoClass(ip) ==
    IF ~Is4(ip) THEN [err |-> "InvalidAddress", key |-> ZeroKey]
    ELSE [err |-> "OK", key |-> As4(ip)]

NewGroupV4KeyFromNetIPAddr(ip) ==
    IF ~Is4(ip) \/ ~IsMulticast(ip) THEN [err |-> "InvalidAddress", key |-> ZeroKey]
    ELSE [err |-> "OK", key |-> As4(ip)]

GroupV4KeyToNetIPAddr(k) == AddrFromSlice(k)

NewSubscriberV4KeyFromNetIPAddr(ip) ==
    IF ~Is4(ip) THEN [err |-> "InvalidAddress", key |-> ZeroKey]
    ELSE [err |-> "OK", key |-> As4(ip)]

SubscriberV4KeyToNetIPAddr(k) == AddrFromSlice(k)

----------------------------------------------------------------------------
(***************************************************************************)
(* The inputs the operations are called with.                              *)
(***************************************************************************)
\* 224.0.0.5, 239.0.0.5, 238.0.0.5, ...
GroupAddr(i) == V4(224 + ((i * 15 - 15) % 16), 0, 0, 5)

McastAddrs == {GroupAddr(i) : i \in 1..NumGroupAddrs}

BadGroupAddrs == {V4(10, 0, 0, 1), V6(255, 1)}

GroupInputs == McastAddrs \cup BadGroupAddrs

\* 192.168.1.10, the multicast address 224.0.0.5, 192.168.1.12, ...
SubAddr(i) == IF i = 2 THEN V4(224, 0, 0, 5) ELSE V4(192, 168, 1, 9 + i)

GoodSubAddrs == {SubAddr(i) : i \in 1..NumSubAddrs}

BadSubAddrs == {V4In6}

\* SubscriberV4 values: [SAddr, Ifindex, IsRemote].  The interface index is copied,
\* never computed with; 2147483647 is the largest integer TLC represents.
SubscriberInputs ==
    {[SAddr |-> a, Ifindex |-> 7, IsRemote |-> FALSE] : a \in GoodSubAddrs \cup BadSubAddrs}
    \cup {[SAddr |-> a, Ifindex |-> 2147483647, IsRemote |-> TRUE] : a \in {SubAddr(1)}}

NoSub == [SAddr |-> ZeroAddr, Ifindex |-> 0, IsRemote |-> FALSE]

TableIds == 1..MaxTables

NoTable == 0

----------------------------------------------------------------------------
(***************************************************************************)
(* The table service.  A table is a set of entries [k, v].  Errors carry   *)
(* the names of the error classes: "AlreadyExists" is ebpf.ErrKeyExist,    *)
(* "NotFound" is ebpf.ErrKeyNotExist, "ResourceExhausted" is the kernel's  *)
(* E2BIG on a full hash table, "Internal" any other lower-level failure.   *)
(***************************************************************************)
Has(t, k) == \E e \in t : e.k = k

Get(t, k) == (CHOOSE e \in t : e.k = k).v

Keys(t) == {e.k : e \in t}

UniqueKeys(t) == \A e1, e2 \in t : e1.k = e2.k => e1 = e2

\* Map.Update(key, value, flag): the existence test comes before the capacity test.
MapUpdate(t, k, v, flag, maxEntries, fault) ==
    IF fault THEN [err |-> "Internal", t |-> t]
    ELSE IF Has(t, k) THEN
        IF flag = "UpdateNoExist" THEN [err |-> "AlreadyExists", t |-> t]
        ELSE [err |-> "OK", t |-> {e \in t : e.k # k} \cup {[k |-> k, v |-> v]}]
    ELSE IF Cardinality(t) >= maxEntries THEN [err |-> "ResourceExhausted", t |-> t]
    ELSE [err |-> "OK", t |-> t \cup {[k |-> k, v |-> v]}]

\* Map.Lookup(key, &value)
MapLookup(t, k, zero, fault) ==
    IF fault THEN [err |-> "Internal", v |-> zero]
    ELSE IF Has(t, k) THEN [err |-> "OK", v |-> Get(t, k)]
    ELSE [err |-> "NotFound", v |-> zero]

\* Map.Delete(key)
MapDelete(t, k, fault) ==
    IF fault THEN [err |-> "Internal", t |-> t]
    ELSE IF Has(t, k) THEN [err |-> "OK", t |-> {e \in t : e.k # k}]
    ELSE [err |-> "NotFound", t |-> t]

\* The kernel keeps an inner table while the outer table or a handle refers to it.
Reap(inn, o, f, a) ==
    [id \in {i \in DOMAIN inn : i \in f \/ i \in a \/ (\E e \in o : e.v = i)} |-> inn[id]]

FreeIds(inn) == TableIds \ DOMAIN inn

Min(S) == CHOOSE x \in S : \A y \in S : x <= y

----------------------------------------------------------------------------
(***************************************************************************)
(* Table declarations                                                      *)
(***************************************************************************)
OuterMaxEntries_OffByOne == MaxGroups + 1

\* NewGroupV4OuterMap: MaxEntries of the outer table
OuterMaxEntries == MaxGroups

\* newSubscriberV4InnerMapSpec: MaxEntries of an inner table
InnerMaxEntries == MaxSubscribers

----------------------------------------------------------------------------
(***************************************************************************)
(* GroupV4OuterMap                                                         *)
(***************************************************************************)
\* As if the inner table spec were pinned by name: OpenOrCreate opens the table
\* that exists instead of creating one.
newSubscriberV4InnerMap_Pinned(inn, f, fault) ==
    IF fault THEN [err |-> "Internal", id |-> NoTable, inner |-> inn, fds |-> f]
    ELSE LET id == IF DOMAIN inn # {} THEN Min(DOMAIN inn) ELSE Min(FreeIds(inn))
         IN  [err |-> "OK", id |-> id,
              inner |-> [i \in DOMAIN inn \cup {id} |-> IF i \in DOMAIN inn THEN inn[i] ELSE {}],
              fds |-> f \cup {id}]

\* newSubscriberV4InnerMap: a new, empty table and the handle that holds it open.
newSubscriberV4InnerMap(inn, f, fault) ==
    IF fault THEN [err |-> "Internal", id |-> NoTable, inner |-> inn, fds |-> f]
    ELSE LET id == Min(FreeIds(inn))
         IN  [err |-> "OK", id |-> id,
              inner |-> [i \in DOMAIN inn \cup {id} |-> IF i = id THEN {} ELSE inn[i]],
              fds |-> f \cup {id}]

RegisterGroup_Overwrite(o, key, id, fault) ==
    MapUpdate(o, key, id, "UpdateAny", OuterMaxEntries, fault)

\* Insert: m.Update(key, val, ciliumebpf.UpdateNoExist)
RegisterGroup(o, key, id, fault) ==
    MapUpdate(o, key, id, "UpdateNoExist", OuterMaxEntries, fault)

InsertRollback_NoClose(f, id) == f

\* Insert: subMap.Close() on the failure path.  Closing gives up the handle
\* whatever Close returns.
InsertRollback(f, id) == f \ {id}

\* Map.Close(): the error it returns
MapClose(fault) == IF fault THEN "Internal" ELSE "OK"

\* Insert, lines 149-150: the failures the returned error reports, each with the
\* call it came from.  The result of subMap.Close() is not read; the error wraps
\* the error of m.Update alone.
InsertError(updErr, closeErr) == {<<"Update", updErr>>}

\* no compensating release took place
NoRollback == [close |-> "none", reports |-> {}]

\* history record of a completed operation; rollback is set by a failed Insert
Result(op, addr, err, tbl, sub) ==
    [op |-> op, addr |-> addr, err |-> err, tbl |-> tbl, sub |-> sub, rollback |-> NoRollback]

GroupInsert(group) ==
    LET k == NewGroupV4KeyFromNetIPAddr(group) IN
    /\ IF k.err # "OK"
       THEN /\ last' = Result("GInsert", group, k.err, NoTable, NoSub)
            /\ UNCHANGED tblVars
       ELSE \E allocFault, updFault, closeFault \in BOOLEAN :
            /\ allocFault \/ FreeIds(inner) # {}
            /\ LET a == newSubscriberV4InnerMap(inner, fds, allocFault) IN
               IF a.err # "OK"
               THEN /\ last' = Result("GInsert", group, a.err, NoTable, NoSub)
                    /\ UNCHANGED tblVars
               ELSE LET r == RegisterGroup(outer, k.key, a.id, updFault) IN
                    IF r.err # "OK"
                    THEN LET f == InsertRollback(a.fds, a.id) IN
                         /\ fds' = f
                         /\ inner' = Reap(a.inner, outer, f, acc)
                         /\ last' = [Result("GInsert", group, r.err, a.id, NoSub)
                                        EXCEPT !.rollback =
                                            [close |-> MapClose(closeFault),
                                             reports |-> InsertError(r.err, MapClose(closeFault))]]
                         /\ UNCHANGED <<outer, acc>>
                    ELSE /\ outer' = r.t
                         /\ fds' = a.fds
                         /\ inner' = Reap(a.inner, r.t, a.fds, acc)
                         /\ last' = Result("GInsert", group, "OK", a.id, NoSub)
                         /\ UNCHANGED acc
    /\ UNCHANGED <<instVars, ctx, listVars>>

\* Lookup, up to the accessor it returns: [err, key, tbl]
GroupLookupRes(o, inn, group, fault, openFault) ==
    LET k == NewGroupV4KeyFromNetIPAddr(group) IN
    IF k.err # "OK" THEN [err |-> k.err, key |-> k.key, tbl |-> NoTable]
    ELSE LET r == MapLookup(o, k.key, NoTable, fault) IN
         IF r.err # "OK" THEN [err |-> r.err, key |-> k.key, tbl |-> NoTable]
         \* ebpf.MapFromID(val.FD)
         ELSE IF openFault \/ r.v \notin DOMAIN inn
              THEN [err |-> "Internal", key |-> k.key, tbl |-> NoTable]
         ELSE [err |-> "OK", key |-> k.key, tbl |-> r.v]

GroupLookup(group) ==
    /\ \E fault, openFault \in BOOLEAN :
       LET r == GroupLookupRes(outer, inner, group, fault, openFault) IN
       /\ acc' = IF r.err = "OK" THEN {r.tbl} ELSE acc
       /\ inner' = Reap(inner, outer, fds, acc')
       /\ last' = Result("GLookup", group, r.err, r.tbl, NoSub)
    /\ UNCHANGED <<outer, fds, instVars, ctx, listVars>>

GroupDeleteRes_IgnoreMissing(o, group, fault) ==
    LET k == NewGroupV4KeyFromNetIPAddr(group) IN
    IF k.err # "OK" THEN [err |-> k.err, t |-> o]
    ELSE LET r == MapDelete(o, k.key, fault) IN
         IF r.err = "NotFound" THEN [err |-> "OK", t |-> r.t] ELSE r

\* As if Delete emptied the outer table.
GroupDeleteRes_Flush(o, group, fault) ==
    LET k == NewGroupV4KeyFromNetIPAddr(group) IN
    IF k.err # "OK" THEN [err |-> k.err, t |-> o]
    ELSE LET r == MapDelete(o, k.key, fault) IN
         IF r.err = "OK" THEN [err |-> "OK", t |-> {}] ELSE r

\* Delete: [err, t]
GroupDeleteRes(o, group, fault) ==
    LET k == NewGroupV4KeyFromNetIPAddr(group) IN
    IF k.err # "OK" THEN [err |-> k.err, t |-> o]
    ELSE MapDelete(o, k.key, fault)

GroupDelete(group) ==
    /\ \E fault \in BOOLEAN :
       LET r == GroupDeleteRes(outer, group, fault) IN
       /\ outer' = r.t
       /\ inner' = Reap(inner, r.t, fds, acc)
       /\ last' = Result("GDelete", group, r.err, NoTable, NoSub)
    /\ UNCHANGED <<fds, acc, instVars, ctx, listVars>>

----------------------------------------------------------------------------
(***************************************************************************)
(* SubscriberV4InnerMap                                                    *)
(***************************************************************************)
\* SubscriberFlags: SubscriberRemote = 1 << 0
SubscriberRemote == 1

ZeroVal == [SourceAddr |-> ZeroKey, Ifindex |-> 0, Pad1 |-> 0, Pad2 |-> 0, Flags |-> 0]

ToSubsciberV4_AlwaysLocal(v) ==
    LET a == SubscriberV4KeyToNetIPAddr(v.SourceAddr) IN
    IF ~a.ok THEN [err |-> "Internal", sub |-> NoSub]
    ELSE [err |-> "OK",
          sub |-> [SAddr |-> a.addr, Ifindex |-> v.Ifindex, IsRemote |-> FALSE]]

\* SubscriberV4Val.ToSubsciberV4
ToSubsciberV4(v) ==
    LET a == SubscriberV4KeyToNetIPAddr(v.SourceAddr) IN
    IF ~a.ok THEN [err |-> "Internal", sub |-> NoSub]
    ELSE [err |-> "OK",
          sub |-> [SAddr |-> a.addr, Ifindex |-> v.Ifindex, IsRemote |-> v.Flags # 0]]

\* Insert: the value written for subscriber s under key
SubscriberVal(s, key) ==
    LET flags == IF s.IsRemote THEN SubscriberRemote ELSE 0 IN
    [SourceAddr |-> key, Ifindex |-> s.Ifindex, Pad1 |-> 0, Pad2 |-> 0,
     Flags |-> flags % 256]

SubscriberInsertRes_Overwrite(t, s, fault) ==
    LET k == NewSubscriberV4KeyFromNetIPAddr(s.SAddr) IN
    IF k.err # "OK" THEN [err |-> k.err, t |-> t]
    ELSE MapUpdate(t, k.key, SubscriberVal(s, k.key), "UpdateAny", InnerMaxEntries, fault)

\* Insert on the table with entries t: [err, t]
SubscriberInsertRes(t, s, fault) ==
    LET k == NewSubscriberV4KeyFromNetIPAddr(s.SAddr) IN
    IF k.err # "OK" THEN [err |-> k.err, t |-> t]
    ELSE MapUpdate(t, k.key, SubscriberVal(s, k.key), "UpdateNoExist", InnerMaxEntries, fault)

\* Lookup on the table with entries t: [err, sub]
SubscriberLookupRes(t, src, fault) ==
    LET k == NewSubscriberV4KeyFromNetIPAddr(src) IN
    IF k.err # "OK" THEN [err |-> k.err, sub |-> NoSub]
    ELSE LET r == MapLookup(t, k.key, ZeroVal, fault) IN
         IF r.err # "OK" THEN [err |-> r.err, sub |-> NoSub]
         ELSE ToSubsciberV4(r.v)

\* Delete on the table with entries t: [err, t]
SubscriberDeleteRes(t, src, fault) ==
    LET k == NewSubscriberV4KeyFromNetIPAddr(src) IN
    IF k.err # "OK" THEN [err |-> k.err, t |-> t]
    ELSE MapDelete(t, k.key, fault)

SubscriberInsert(id, s) ==
    /\ id \in acc
    /\ \E fault \in BOOLEAN :
       LET r == SubscriberInsertRes(inner[id], s, fault) IN
       /\ inner' = [inner EXCEPT ![id] = r.t]
       /\ last' = Result("SInsert", s.SAddr, r.err, id, s)
    /\ UNCHANGED <<outer, fds, acc, instVars, ctx, listVars>>

SubscriberLookup(id, src) ==
    /\ id \in acc
    /\ \E fault \in BOOLEAN :
       LET r == SubscriberLookupRes(inner[id], src, fault) IN
       last' = Result("SLookup", src, r.err, id, r.sub)
    /\ UNCHANGED <<tblVars, instVars, ctx, listVars>>

SubscriberDelete(id, src) ==
    /\ id \in acc
    /\ \E fault \in BOOLEAN :
       LET r == SubscriberDeleteRes(inner[id], src, fault) IN
       /\ inner' = [inner EXCEPT ![id] = r.t]
       /\ last' = Result("SDelete", src, r.err, id, NoSub)
    /\ UNCHANGED <<outer, fds, acc, instVars, ctx, listVars>>

----------------------------------------------------------------------------
(***************************************************************************)
(* Spec: the tables under any sequence of operations.  NewGroupV4OuterMap  *)
(* returns an empty outer table with batchLookupSupported unset.           *)
(***************************************************************************)
NoResult == Result("none", ZeroAddr, "OK", NoTable, NoSub)

ListIdle ==
    /\ lpc = "idle"
    /\ order = <<>>
    /\ cursor = 0
    /\ keys = <<>>
    /\ vals = <<>>
    /\ count = 0
    /\ out = <<>>
    /\ lerr = "OK"
    /\ tick = 0

\* the execution contexts that run Insert step by step
Procs == {1, 2}

IdleCtx == [pc |-> "idle", group |-> ZeroAddr, key |-> ZeroKey, id |-> NoTable,
            err |-> "OK", absent |-> FALSE]

NoCtx == [p \in Procs |-> IdleCtx]

\* an instance obtained from constructor c, with its table open or not
Instance(c, open) == [ctor |-> c, open |-> open]

NoInstance == Instance("none", FALSE)

\* no run of haveBatchLookupSupport yet
NoProbe == [runs |-> 0, buflen |-> 0, err |-> "OK"]

Init ==
    /\ outer = {}
    /\ inner = <<>>
    /\ fds = {}
    /\ acc = {}
    /\ last = NoResult
    /\ batchLookupSupported = FALSE
    /\ inst = Instance("NewGroupV4OuterMap", TRUE)
    /\ probe = NoProbe
    /\ ctx = NoCtx
    /\ ListIdle

Next ==
    \/ \E g \in GroupInputs : GroupInsert(g)
    \/ \E g \in GroupInputs : GroupLookup(g)
    \/ \E g \in GroupInputs : GroupDelete(g)
    \/ \E id \in TableIds, s \in SubscriberInputs : SubscriberInsert(id, s)
    \/ \E id \in TableIds, a \in GoodSubAddrs \cup BadSubAddrs : SubscriberLookup(id, a)
    \/ \E id \in TableIds, a \in GoodSubAddrs \cup BadSubAddrs : SubscriberDelete(id, a)

Spec == Init /\ [][Next]_vars

----------------------------------------------------------------------------
(***************************************************************************)
(* Listings.  The table service enumerates a table in some order of its    *)
(* own (order).  A bulk fetch, Map.BatchLookup(&cursor, keysOut, valuesOut),*)
(* writes the next c entries at the start of the buffers, advances the     *)
(* cursor and returns c with ErrKeyNotExist when the end of the table is   *)
(* reached, with nil when more entries remain, or 0 with a lower-level     *)
(* error.  The service chooses c: at least one entry while entries remain, *)
(* at most the length of the buffers.                                      *)
(***************************************************************************)
Repeat(x, n) == [i \in 1..n |-> x]

MinOf(a, b) == IF a < b THEN a ELSE b

Range(q) == {q[i] : i \in 1..Len(q)}

\* GroupV4Val: the zero value of the vals buffer of ListBatch
ZeroGroupVal == [FD |-> NoTable]

\* the entries of the outer table o as the listing receives them: GroupV4Key
\* and GroupV4Val{FD}
GroupEntries(o) == {[k |-> e.k, v |-> [FD |-> e.v]] : e \in o}

\* the orders in which the entries of table t can be enumerated
Orders(t) == {q \in [1..Cardinality(t) -> t] : Range(q) = t}

\* BatchLookup writing entries order[cur+1 .. cur+c] at the start of buffer buf
BatchWrite(buf, ord, cur, c, field) ==
    [i \in 1..Len(buf) |-> IF i <= c THEN ord[cur + i][field] ELSE buf[i]]

\* What a bulk fetch may return when cur entries have been delivered: [c, err]
BatchOutcomes(ord, cur, buflen) ==
    {[c |-> 0, err |-> "Internal"]}
    \cup {[c |-> c, err |-> IF cur + c = Len(ord) THEN "NotFound" ELSE "OK"] :
            c \in {n \in 0..MinOf(buflen, Len(ord) - cur) : n > 0 \/ cur = Len(ord)}}

\* ListBatch, lines 239-247: the addresses of the first count keys of the buffer
GroupsOfKeys(buf, cnt) ==
    LET n == MinOf(Len(buf), cnt) IN
    IF \E i \in 1..n : ~GroupV4KeyToNetIPAddr(buf[i]).ok
    THEN [out |-> <<>>, err |-> "Internal"]
    ELSE [out |-> [i \in 1..n |-> GroupV4KeyToNetIPAddr(buf[i]).addr], err |-> "OK"]

\* SubscriberV4InnerMap.List, lines 481-489: the subscribers of the first count values
SubscribersOfVals(buf, cnt) ==
    LET n == MinOf(Len(buf), cnt) IN
    IF \E i \in 1..n : ToSubsciberV4(buf[i]).err # "OK"
    THEN [out |-> <<>>, err |-> "Internal"]
    ELSE [out |-> [i \in 1..n |-> ToSubsciberV4(buf[i]).sub], err |-> "OK"]

\* the conversion loop of the listing of kind "groups" (ListBatch) or "subs"
Convert(kind, buf, cnt) ==
    IF kind = "groups" THEN GroupsOfKeys(buf, cnt) ELSE SubscribersOfVals(buf, cnt)

BatchLoopStep_Retry(buf, cnt, r, kind) ==
    IF r.err # "NotFound" THEN [pc |-> "loop", count |-> cnt + r.c, out |-> <<>>, err |-> "OK"]
    ELSE LET cv == Convert(kind, buf, cnt + r.c) IN
         [pc |-> "done", count |-> cnt + r.c, out |-> cv.out, err |-> cv.err]

\* One iteration of the loop of ListBatch (lines 228-237) and of
\* SubscriberV4InnerMap.List (lines 470-479), with the conversion that follows
\* the loop: buf is the buffer after the fetch r = [c, err].
BatchLoopStep(buf, cnt, r, kind) ==
    IF r.err = "OK" THEN [pc |-> "loop", count |-> cnt + r.c, out |-> <<>>, err |-> "OK"]
    ELSE IF r.err = "NotFound"
         THEN LET cv == Convert(kind, buf, cnt + r.c) IN
              [pc |-> "done", count |-> cnt + r.c, out |-> cv.out, err |-> cv.err]
    ELSE [pc |-> "done", count |-> cnt + r.c, out |-> <<>>, err |-> r.err]

\* One iter.Next of ListIterator (lines 207-215): ok with the entry e, or the
\* iterator's end with its error e.err.
IterStep(o, ok, e) ==
    IF ok THEN LET a == GroupV4KeyToNetIPAddr(e.k) IN
               IF ~a.ok THEN [pc |-> "done", out |-> o, err |-> "Internal"]
               ELSE [pc |-> "loop", out |-> Append(o, a.addr), err |-> "OK"]
    ELSE [pc |-> "done", out |-> o, err |-> e.err]

\* GroupV4OuterMap.List: the strategy the cached flag selects
ListStrategy(flag) == IF flag THEN "batch" ELSE "iter"

\* List() is called: ListBatch or ListIterator sets up its buffers.
ListStart ==
    /\ lpc = "idle"
    /\ inst.open
    /\ lpc' = ListStrategy(batchLookupSupported)
    /\ order' \in Orders(GroupEntries(outer))
    /\ keys' = IF lpc' = "batch" THEN Repeat(ZeroKey, MaxGroups) ELSE <<>>
    /\ vals' = IF lpc' = "batch" THEN Repeat(ZeroGroupVal, MaxGroups) ELSE <<>>
    /\ cursor' = 0 /\ count' = 0 /\ out' = <<>> /\ lerr' = "OK" /\ tick' = 0
    /\ last' = Result(IF lpc' = "batch" THEN "ListBatch" ELSE "ListIterator",
                      ZeroAddr, "OK", NoTable, NoSub)
    /\ UNCHANGED <<tblVars, instVars, ctx>>

ListBatchFetch ==
    /\ lpc = "batch"
    /\ \E r \in BatchOutcomes(order, cursor, Len(keys)) :
       LET buf == BatchWrite(keys, order, cursor, r.c, "k")
           st == BatchLoopStep(buf, count, r, "groups")
       IN  /\ keys' = buf
           /\ vals' = BatchWrite(vals, order, cursor, r.c, "v")
           /\ cursor' = cursor + r.c
           /\ count' = st.count
           /\ out' = st.out
           /\ lerr' = st.err
           /\ lpc' = IF st.pc = "loop" THEN "batch" ELSE "done"
           /\ tick' = 1 - tick
           /\ last' = [last EXCEPT !.err = r.err]
    /\ UNCHANGED <<tblVars, instVars, ctx, order>>

ListIteratorNext ==
    /\ lpc = "iter"
    /\ \E fault \in BOOLEAN :
       LET ok == ~fault /\ cursor < Len(order)
           st == IterStep(out, ok,
                          IF ok THEN order[cursor + 1]
                          ELSE [err |-> IF fault THEN "Internal" ELSE "OK"])
       IN  /\ cursor' = IF ok THEN cursor + 1 ELSE cursor
           /\ out' = st.out
           /\ lerr' = st.err
           /\ lpc' = IF st.pc = "loop" THEN "iter" ELSE "done"
           /\ last' = [last EXCEPT !.err = IF fault THEN "Internal" ELSE "OK"]
    /\ UNCHANGED <<tblVars, instVars, ctx, order, keys, vals, count, tick>>

\* SubscriberV4InnerMap.List() is called on the accessor of table id.
SubListStart(id) ==
    /\ lpc = "idle"
    /\ id \in acc
    /\ lpc' = "sbatch"
    /\ order' \in Orders(inner[id])
    /\ keys' = Repeat(ZeroKey, MaxSubscribers)
    /\ vals' = Repeat(ZeroVal, MaxSubscribers)
    /\ cursor' = 0 /\ count' = 0 /\ out' = <<>> /\ lerr' = "OK" /\ tick' = 0
    /\ last' = Result("SList", ZeroAddr, "OK", id, NoSub)
    /\ UNCHANGED <<tblVars, instVars, ctx>>

SubListFetch ==
    /\ lpc = "sbatch"
    /\ \E r \in BatchOutcomes(order, cursor, Len(keys)) :
       LET buf == BatchWrite(vals, order, cursor, r.c, "v")
           st == BatchLoopStep(buf, count, r, "subs")
       IN  /\ keys' = BatchWrite(keys, order, cursor, r.c, "k")
           /\ vals' = buf
           /\ cursor' = cursor + r.c
           /\ count' = st.count
           /\ out' = st.out
           /\ lerr' = st.err
           /\ lpc' = IF st.pc = "loop" THEN "sbatch" ELSE "done"
           /\ tick' = 1 - tick
           /\ last' = [last EXCEPT !.err = r.err]
    /\ UNCHANGED <<tblVars, instVars, ctx, order>>

(***************************************************************************)
(* SpecList: one listing of tables that nothing modifies meanwhile.  It    *)
(* starts from states that Spec reaches: any set of at most MaxGroups      *)
(* groups inserted in the order of their numbers, a caller holding the     *)
(* accessor of at most one of them, any subscribers in that group's table, *)
(* and from either value of the capability flag (set by the probe in       *)
(* NewGroupV4Map's start hook or in OpenGroupV4OuterMap).                  *)
(***************************************************************************)
\* the outer table after Insert of the groups numbered G, in rising order
OuterOf(G) ==
    {[k |-> As4(GroupAddr(i)), v |-> Cardinality({j \in G : j <= i})] : i \in G}

OuterStates ==
    {OuterOf(G) : G \in {S \in SUBSET (1..NumGroupAddrs) : Cardinality(S) <= OuterMaxEntries}}

InnerStates ==
    {t \in SUBSET {[k |-> As4(s.SAddr), v |-> SubscriberVal(s, As4(s.SAddr))] :
                        s \in {x \in SubscriberInputs : Is4(x.SAddr)}} :
        UniqueKeys(t) /\ Cardinality(t) <= InnerMaxEntries}

InitList ==
    /\ outer \in OuterStates
    /\ fds = {e.v : e \in outer}
    /\ acc \in {a \in SUBSET {e.v : e \in outer} : Cardinality(a) <= 1}
    /\ inner \in {f \in [{e.v : e \in outer} -> InnerStates] :
                    \A id \in DOMAIN f : id \notin acc => f[id] = {}}
    /\ last = NoResult
    /\ batchLookupSupported \in BOOLEAN
    /\ inst = IF batchLookupSupported THEN Instance("OpenGroupV4OuterMap", TRUE)
              ELSE Instance("NewGroupV4OuterMap", TRUE)
    /\ probe = IF batchLookupSupported THEN [runs |-> 1, buflen |-> 1, err |-> "OK"]
               ELSE NoProbe
    /\ ctx = NoCtx
    /\ ListIdle

NextList ==
    \/ ListStart
    \/ ListBatchFetch
    \/ ListIteratorNext
    \/ \E id \in TableIds : SubListStart(id)
    \/ SubListFetch

SpecList == InitList /\ [][NextList]_vars

----------------------------------------------------------------------------
(***************************************************************************)
(* Properties of Spec.  A step that completes an operation is recognised   *)
(* by last': every operation records what it was called with and what it   *)
(* returned.  "Internal" is returned only when the table service reports a *)
(* lower-level failure.                                                    *)
(***************************************************************************)
ValidGroup(ip) == Is4(ip) /\ IsMulticast(ip)

Subscribers(inn, id) == {ToSubsciberV4(e.v).sub : e \in inn[id]}

\* C1: when the insert-if-absent step of GroupV4OuterMap.Insert fails (duplicate
\* key, outer table full, or a lower-level error), the inner table allocated by
\* that call is released before Insert returns: its handle is not held, the
\* table is gone, and handles, tables and outer entries are as before the call.
C1_InsertRollback ==
    [][(last'.op = "GInsert" /\ last'.err # "OK" /\ last'.tbl # NoTable)
        => /\ last'.tbl \notin fds'
           /\ last'.tbl \notin DOMAIN inner'
           /\ fds' = fds /\ inner' = inner /\ outer' = outer]_vars

\* A failed Insert whose registration met a lower-level error, while a group exists.
C1_Witness ==
    /\ last.op = "GInsert" /\ last.err = "Internal" /\ last.tbl # NoTable
    /\ outer # {}

\* C2: the outer table holds at most one entry per group address; Insert(g) of
\* a present g fails with AlreadyExists (or the lower-level error), and the
\* entry of g and the subscribers of its inner table are unchanged.
C2_GroupKeyUnique ==
    /\ [](UniqueKeys(outer))
    /\ [][(last'.op = "GInsert" /\ ValidGroup(last'.addr) /\ Has(outer, As4(last'.addr)))
            => /\ last'.err \in {"AlreadyExists", "Internal"}
               /\ outer' = outer
               /\ Get(outer, As4(last'.addr)) \in DOMAIN inner'
               /\ inner'[Get(outer, As4(last'.addr))] = inner[Get(outer, As4(last'.addr))]]_vars

\* Insert of a present group, whose table has a subscriber, failed with AlreadyExists.
C2_Witness ==
    /\ last.op = "GInsert" /\ last.err = "AlreadyExists"
    /\ Has(outer, As4(last.addr))
    /\ inner[Get(outer, As4(last.addr))] # {}

\* C3: right after a successful Insert(g), Lookup(g) succeeds and resolves to the
\* table that Insert allocated, which has no subscribers; that table is none of
\* the tables that existed before the call (so a re-inserted group does not see
\* the subscribers it had before it was deleted).
C3_FreshEmptyTable ==
    /\ [](last.op = "GInsert" /\ last.err = "OK"
            => LET r == GroupLookupRes(outer, inner, last.addr, FALSE, FALSE) IN
               /\ r.err = "OK"
               /\ r.tbl = last.tbl
               /\ Subscribers(inner, r.tbl) = {})
    /\ [][(last'.op = "GInsert" /\ last'.err = "OK")
            => last'.tbl \notin DOMAIN inner]_vars

\* Insert succeeded while a caller still holds the accessor of a deleted group's
\* table that has subscribers.
C3_Witness ==
    /\ last.op = "GInsert" /\ last.err = "OK"
    /\ \E id \in acc : /\ id # last.tbl
                       /\ \A e \in outer : e.v # id
                       /\ inner[id] # {}

\* C4: Delete(g) of a present g succeeds (unless the service fails) and then g is
\* absent; while g is absent Lookup(g) fails with NotFound, and g becomes present
\* again only by a successful Insert(g); Delete(g) of an absent g fails with
\* NotFound and leaves the outer table and every inner table unchanged.
C4_GroupDelete ==
    /\ [][(last'.op = "GDelete" /\ ValidGroup(last'.addr) /\ Has(outer, As4(last'.addr)))
            => /\ last'.err \in {"OK", "Internal"}
               /\ last'.err = "OK" => ~Has(outer', As4(last'.addr))]_vars
    /\ [](\A g \in McastAddrs :
            ~Has(outer, As4(g)) => GroupLookupRes(outer, inner, g, FALSE, FALSE).err = "NotFound")
    /\ [][\A g \in McastAddrs :
            (~Has(outer, As4(g)) /\ Has(outer', As4(g)))
                => (last'.op = "GInsert" /\ last'.err = "OK" /\ last'.addr = g)]_vars
    /\ [][(last'.op = "GDelete" /\ ValidGroup(last'.addr) /\ ~Has(outer, As4(last'.addr)))
            => /\ last'.err \in {"NotFound", "Internal"}
               /\ outer' = outer /\ inner' = inner]_vars

\* Delete of a present group succeeded, leaving another group in the table.
C4_Witness ==
    /\ last.op = "GDelete" /\ last.err = "OK"
    /\ ~Has(outer, As4(last.addr))
    /\ outer # {}

\* C5: after a successful SubscriberV4InnerMap.Insert(s), Lookup(s.SAddr) on the
\* same table returns a record with the address, interface index and remote flag
\* of s.
C5_SubscriberRoundTrip ==
    (last.op = "SInsert" /\ last.err = "OK")
        => LET r == SubscriberLookupRes(inner[last.tbl], last.sub.SAddr, FALSE) IN
           /\ r.err = "OK"
           /\ r.sub.SAddr = last.sub.SAddr
           /\ r.sub.Ifindex = last.sub.Ifindex
           /\ r.sub.IsRemote = last.sub.IsRemote

\* A remote subscriber with the largest interface index was inserted.
C5_Witness ==
    /\ last.op = "SInsert" /\ last.err = "OK"
    /\ last.sub.IsRemote /\ last.sub.Ifindex = 2147483647

\* C6: SubscriberV4InnerMap.Insert of an address present in the table fails with
\* AlreadyExists (or the lower-level error) and changes no table: the table keeps
\* exactly one record for the address, the one first stored.
C6_SubscriberInsertIfAbsent ==
    /\ [](\A id \in DOMAIN inner : UniqueKeys(inner[id]))
    /\ [][(last'.op = "SInsert" /\ Is4(last'.addr) /\ Has(inner[last'.tbl], As4(last'.addr)))
            => /\ last'.err \in {"AlreadyExists", "Internal"}
               /\ inner' = inner
               /\ Cardinality({e \in inner'[last'.tbl] : e.k = As4(last'.addr)}) = 1]_vars

\* A second Insert of a present address, with another interface index and
\* locality than the stored record, failed with AlreadyExists.
C6_Witness ==
    /\ last.op = "SInsert" /\ last.err = "AlreadyExists"
    /\ Has(inner[last.tbl], As4(last.addr))
    /\ LET stored == ToSubsciberV4(Get(inner[last.tbl], As4(last.addr))).sub IN
       /\ stored.Ifindex # last.sub.Ifindex
       /\ stored.IsRemote # last.sub.IsRemote

\* C8: the outer table never holds more than MaxGroups groups nor an inner table
\* more than MaxSubscribers subscribers; Insert of a new key into a full table
\* fails with ResourceExhausted (or the lower-level error) and adds nothing, and
\* a GroupV4OuterMap.Insert that fails so leaves no inner table behind.
C8_CapacityCeiling ==
    /\ [](Cardinality(outer) <= MaxGroups)
    /\ [](\A id \in DOMAIN inner : Cardinality(inner[id]) <= MaxSubscribers)
    /\ [][(last'.op = "GInsert" /\ ValidGroup(last'.addr) /\ ~Has(outer, As4(last'.addr))
           /\ Cardinality(outer) = MaxGroups)
            => /\ last'.err \in {"ResourceExhausted", "Internal"}
               /\ outer' = outer /\ inner' = inner /\ fds' = fds
               /\ last'.tbl \notin DOMAIN inner']_vars
    /\ [][(last'.op = "SInsert" /\ Is4(last'.addr) /\ ~Has(inner[last'.tbl], As4(last'.addr))
           /\ Cardinality(inner[last'.tbl]) = MaxSubscribers)
            => /\ last'.err \in {"ResourceExhausted", "Internal"}
               /\ inner' = inner]_vars

\* Insert of a new group into the full outer table failed with ResourceExhausted
\* while some inner table is full too.
C8_Witness ==
    /\ last.op = "GInsert" /\ last.err = "ResourceExhausted"
    /\ Cardinality(outer) = MaxGroups
    /\ \E id \in DOMAIN inner : Cardinality(inner[id]) = MaxSubscribers

\* C9: GroupV4OuterMap Insert, Lookup and Delete of an address that is not IPv4
\* or not multicast fail with InvalidAddress, allocate no inner table and change
\* no table; the SubscriberV4InnerMap operations fail with InvalidAddress exactly
\* for the addresses that are not IPv4 (then changing no table), whether the IPv4
\* address is unicast or multicast.
C9_InvalidAddress ==
    /\ [][(last'.op \in {"GInsert", "GLookup", "GDelete"} /\ ~ValidGroup(last'.addr))
            => /\ last'.err = "InvalidAddress"
               /\ last'.tbl = NoTable
               /\ UNCHANGED tblVars]_vars
    /\ [][(last'.op \in {"SInsert", "SLookup", "SDelete"})
            => /\ (last'.err = "InvalidAddress") <=> ~Is4(last'.addr)
               /\ ~Is4(last'.addr) => UNCHANGED tblVars]_vars

\* Insert of the IPv4 unicast address 10.0.0.1 as a group was rejected while a
\* subscriber with a multicast address is stored in some inner table.
C9_Witness ==
    /\ last.op = "GInsert" /\ last.err = "InvalidAddress" /\ Is4(last.addr)
    /\ \E id \in DOMAIN inner : \E e \in inner[id] : IsMulticast(V4(e.k[1], e.k[2], e.k[3], e.k[4]))

----------------------------------------------------------------------------
(***************************************************************************)
(* Properties of SpecList.                                                 *)
(***************************************************************************)
GroupListing == last.op \in {"ListBatch", "ListIterator"}

\* what the fetches of the running listing have delivered so far, converted
Delivered ==
    IF GroupListing
    THEN [i \in 1..cursor |-> GroupV4KeyToNetIPAddr(order[i].k).addr]
    ELSE [i \in 1..cursor |-> ToSubsciberV4(order[i].v).sub]

\* C7: a List of an outer table of N groups that nothing modifies returns
\* exactly those N addresses, each once, under the iterator strategy and under
\* the batch strategy alike.
C7_StrategyAgreement ==
    (lpc = "done" /\ GroupListing /\ lerr = "OK")
        => /\ Range(out) = {GroupV4KeyToNetIPAddr(e.k).addr : e \in outer}
           /\ Len(out) = Cardinality(outer)

----------------------------------------------------------------------------
(***************************************************************************)
(* Further properties of Spec.                                             *)
(***************************************************************************)
\* C11: when the registration step of GroupV4OuterMap.Insert fails and the
\* release of the inner table it allocated fails too, the error that Insert
\* returns reports the registration error and the release error, both.
C11_ReleaseFailureReported ==
    (last.op = "GInsert" /\ last.rollback.close \notin {"none", "OK"})
        => /\ <<"Update", last.err>> \in last.rollback.reports
           /\ <<"Close", last.rollback.close>> \in last.rollback.reports


----------------------------------------------------------------------------
(***************************************************************************)
(* SpecConc: two execution contexts, each running GroupV4OuterMap.Insert    *)
(* once, interleaved at the calls of the table service.  Insert has three   *)
(* such calls: the creation of the inner table, the registration in the     *)
(* outer table, and on failure the release of the inner table.              *)
(***************************************************************************)
\* Insert, lines 133-141: the key and the new inner table
InsertBegin(p, group) ==
    /\ ctx[p].pc = "idle"
    /\ LET k == NewGroupV4KeyFromNetIPAddr(group)
           c == [IdleCtx EXCEPT !.group = group, !.key = k.key,
                                !.absent = ~Has(outer, k.key)]
       IN  IF k.err # "OK"
           THEN /\ ctx' = [ctx EXCEPT ![p] = [c EXCEPT !.pc = "done", !.err = k.err]]
                /\ UNCHANGED <<inner, fds>>
           ELSE \E allocFault \in BOOLEAN :
                /\ allocFault \/ FreeIds(inner) # {}
                /\ LET a == newSubscriberV4InnerMap(inner, fds, allocFault) IN
                   /\ inner' = a.inner
                   /\ fds' = a.fds
                   /\ ctx' = [ctx EXCEPT ![p] =
                                IF a.err # "OK" THEN [c EXCEPT !.pc = "done", !.err = a.err]
                                ELSE [c EXCEPT !.pc = "register", !.id = a.id]]
    /\ UNCHANGED <<outer, acc, last, instVars, listVars>>

\* Insert, lines 143-148 and 153: the registration, and the return on success
InsertRegister(p) ==
    /\ ctx[p].pc = "register"
    /\ \E updFault \in BOOLEAN :
       LET r == RegisterGroup(outer, ctx[p].key, ctx[p].id, updFault) IN
       /\ outer' = r.t
       /\ ctx' = [ctx EXCEPT ![p].pc = IF r.err = "OK" THEN "done" ELSE "close",
                             ![p].err = r.err]
    /\ UNCHANGED <<inner, fds, acc, last, instVars, listVars>>

\* Insert, lines 149-150: the release, and the return of the registration error
InsertClose(p) ==
    /\ ctx[p].pc = "close"
    /\ fds' = InsertRollback(fds, ctx[p].id)
    /\ inner' = Reap(inner, outer, fds', acc)
    /\ ctx' = [ctx EXCEPT ![p].pc = "done"]
    /\ UNCHANGED <<outer, acc, last, instVars, listVars>>

\* Some groups are registered, each with its empty inner table and the handle
\* that its Insert left open; no context has called Insert yet.
InitConc ==
    /\ outer \in OuterStates
    /\ inner = [id \in {e.v : e \in outer} |-> {}]
    /\ fds = {e.v : e \in outer}
    /\ acc = {}
    /\ last = NoResult
    /\ batchLookupSupported = FALSE
    /\ inst = Instance("NewGroupV4OuterMap", TRUE)
    /\ probe = NoProbe
    /\ ctx = NoCtx
    /\ ListIdle

NextConc ==
    \/ \E p \in Procs, g \in GroupInputs : InsertBegin(p, g)
    \/ \E p \in Procs : InsertRegister(p)
    \/ \E p \in Procs : InsertClose(p)

SpecConc == InitConc /\ [][NextConc]_vars

\* both contexts have returned from Insert of the same valid group, which was
\* absent when the first of them was called
BothReturned ==
    /\ \A p \in Procs : ctx[p].pc = "done"
    /\ ctx[1].group = ctx[2].group
    /\ ValidGroup(ctx[1].group)
    /\ \E p \in Procs : ctx[p].absent

\* C12: when two contexts run Insert(g) of one absent group concurrently, then
\* under every interleaving at most one call succeeds; if no call met a failure
\* of the table service or a full table, exactly one succeeds and the other
\* fails with AlreadyExists; the outer table has one entry for g, which refers
\* to the inner table of the successful call; and once both calls have returned
\* no inner table is left that the outer table does not refer to.
C12_ConcurrentInsert ==
    BothReturned =>
        /\ Cardinality({p \in Procs : ctx[p].err = "OK"}) <= 1
        /\ (\A p \in Procs : ctx[p].err \in {"OK", "AlreadyExists"})
                => \E p, q \in Procs : /\ ctx[p].err = "OK"
                                       /\ ctx[q].err = "AlreadyExists"
        /\ UniqueKeys(outer)
        /\ \A p \in Procs : ctx[p].err = "OK"
                => /\ Has(outer, ctx[p].key)
                   /\ Get(outer, ctx[p].key) = ctx[p].id
        /\ DOMAIN inner = {e.v : e \in outer}

\* Both calls allocated their inner table before either registered; one
\* succeeded, the other failed with AlreadyExists.
C12_Witness ==
    /\ BothReturned
    /\ \A p \in Procs : ctx[p].absent /\ ctx[p].id # NoTable
    /\ \E p, q \in Procs : ctx[p].err = "OK" /\ ctx[q].err = "AlreadyExists"


----------------------------------------------------------------------------
(***************************************************************************)
(* SpecProbe: how a GroupV4OuterMap instance is obtained, and one List on   *)
(* it.  The outer table is pinned: it exists, with the groups registered    *)
(* earlier, before this process obtains its instance.                       *)
(***************************************************************************)
\* haveBatchLookupSupport: keys and vals are made with one element each
ProbeBufLen == 1

\* What the BatchLookup of the probe may return on table t: what a bulk fetch
\* with a fresh cursor returns, or the service's "operation unsupported".
ProbeOutcomes(t) ==
    {[c |-> 0, err |-> "Unsupported"]}
    \cup UNION {BatchOutcomes(q, 0, ProbeBufLen) : q \in Orders(t)}

haveBatchLookupSupport_NilOnly(r) == r.err = "OK"

\* haveBatchLookupSupport, lines 497-501, on the result r of its BatchLookup
haveBatchLookupSupport(r) ==
    IF r.err # "OK" /\ r.err = "Unsupported" THEN FALSE ELSE TRUE

\* the history of probe runs after one more run that made the fetch r
ProbeRun(pr, r) == [runs |-> pr.runs + 1, buflen |-> ProbeBufLen, err |-> r.err]

\* NewGroupV4OuterMap: the instance is returned with its table not yet opened
\* and batchLookupSupported left at its zero value.
NewGroupV4OuterMap ==
    /\ inst = NoInstance
    /\ inst' = Instance("NewGroupV4OuterMap", FALSE)
    /\ batchLookupSupported' = FALSE
    /\ last' = Result("NewGroupV4OuterMap", ZeroAddr, "OK", NoTable, NoSub)
    /\ UNCHANGED <<tblVars, probe, ctx, listVars>>

\* The owner of an instance made by NewGroupV4OuterMap opens its table
\* (ebpf.Map.OpenOrCreate, promoted through the embedded *ebpf.Map).
OpenOrCreate ==
    /\ inst = Instance("NewGroupV4OuterMap", FALSE)
    /\ \E fault \in BOOLEAN :
       /\ inst' = Instance("NewGroupV4OuterMap", ~fault)
       /\ last' = Result("OpenOrCreate", ZeroAddr, IF fault THEN "Internal" ELSE "OK",
                         NoTable, NoSub)
    /\ UNCHANGED <<tblVars, batchLookupSupported, probe, ctx, listVars>>

\* NewGroupV4Map, lines 94-113: no instance when multicast is disabled or the
\* kernel lacks the helper; else NewGroupV4OuterMap and a start hook.
NewGroupV4Map(enabled) ==
    /\ inst = NoInstance
    /\ inst' = IF enabled THEN Instance("NewGroupV4Map", FALSE) ELSE NoInstance
    /\ batchLookupSupported' = FALSE
    /\ last' = Result("NewGroupV4Map", ZeroAddr, IF enabled THEN "OK" ELSE "Unsupported",
                      NoTable, NoSub)
    /\ UNCHANGED <<tblVars, probe, ctx, listVars>>

\* NewGroupV4Map, lines 116-123: the start hook opens the table and probes it
OnStart ==
    /\ inst = Instance("NewGroupV4Map", FALSE)
    /\ \E fault \in BOOLEAN :
       IF fault
       THEN /\ last' = Result("OnStart", ZeroAddr, "Internal", NoTable, NoSub)
            /\ UNCHANGED <<inst, batchLookupSupported, probe>>
       ELSE \E r \in ProbeOutcomes(outer) :
            /\ inst' = Instance("NewGroupV4Map", TRUE)
            /\ batchLookupSupported' = haveBatchLookupSupport(r)
            /\ probe' = ProbeRun(probe, r)
            /\ last' = Result("OnStart", ZeroAddr, "OK", NoTable, NoSub)
    /\ UNCHANGED <<tblVars, ctx, listVars>>

\* OpenGroupV4OuterMap: loads the pinned table and probes it
OpenGroupV4OuterMap ==
    /\ inst = NoInstance
    /\ \E fault \in BOOLEAN :
       IF fault
       THEN /\ last' = Result("OpenGroupV4OuterMap", ZeroAddr, "Internal", NoTable, NoSub)
            /\ UNCHANGED <<inst, batchLookupSupported, probe>>
       ELSE \E r \in ProbeOutcomes(outer) :
            /\ inst' = Instance("OpenGroupV4OuterMap", TRUE)
            /\ batchLookupSupported' = haveBatchLookupSupport(r)
            /\ probe' = ProbeRun(probe, r)
            /\ last' = Result("OpenGroupV4OuterMap", ZeroAddr, "OK", NoTable, NoSub)
    /\ UNCHANGED <<tblVars, ctx, listVars>>

InitProbe ==
    /\ outer \in OuterStates
    /\ inner = [id \in {e.v : e \in outer} |-> {}]
    /\ fds = {}
    /\ acc = {}
    /\ last = NoResult
    /\ batchLookupSupported = FALSE
    /\ inst = NoInstance
    /\ probe = NoProbe
    /\ ctx = NoCtx
    /\ ListIdle

NextProbe ==
    \/ NewGroupV4OuterMap
    \/ OpenOrCreate
    \/ \E enabled \in BOOLEAN : NewGroupV4Map(enabled)
    \/ OnStart
    \/ OpenGroupV4OuterMap
    \/ ListStart
    \/ ListBatchFetch
    \/ ListIteratorNext

SpecProbe == InitProbe /\ [][NextProbe]_vars

\* C13: on every instance, however obtained, the probe has run exactly once by
\* the time its table is open; the flag does not change afterwards; and every
\* List selects its strategy from the value the probe returned.
C13_ProbeOnce ==
    /\ [](inst.open => probe.runs = 1)
    /\ [][inst.open => batchLookupSupported' = batchLookupSupported]_vars
    /\ [](lpc \in {"batch", "iter"}
            => /\ probe.runs = 1
               /\ lpc = ListStrategy(haveBatchLookupSupport(probe)))

\* C14: the probe makes its bulk fetch with buffers of one element, and the
\* flag it caches is false exactly when that fetch failed with "operation
\* unsupported": success, exhaustion and every other error give true.
C14_ProbeResult ==
    probe.runs >= 1
        => /\ probe.buflen = 1
           /\ batchLookupSupported = FALSE <=> probe.err = "Unsupported"

\* The probe's fetch failed with a lower-level error, the flag is true, and List
\* went on to use the batch strategy.
C14_Witness ==
    /\ probe.runs = 1 /\ probe.err = "Internal"
    /\ batchLookupSupported
    /\ lpc = "batch"


----------------------------------------------------------------------------
(***************************************************************************)
(* SpecFlags: the subscriber operations on an inner table whose records     *)
(* were written by any writer of the shared table (the datapath, another    *)
(* agent version): the flags byte of a stored record can have any bits set. *)
(***************************************************************************)
\* flags bytes with bit 0 and the reserved bits set and clear in every combination
FlagBytes == {0, 1, 2, 3, 128, 255}

RawInnerStates ==
    {t \in SUBSET {[k |-> As4(a),
                    v |-> [SourceAddr |-> As4(a), Ifindex |-> 7, Pad1 |-> 0, Pad2 |-> 0,
                           Flags |-> f]] : a \in GoodSubAddrs, f \in FlagBytes} :
        UniqueKeys(t) /\ Cardinality(t) <= InnerMaxEntries}

\* One group is registered; a caller holds the accessor of its inner table.
InitFlags ==
    /\ outer = OuterOf({1})
    /\ inner \in [{e.v : e \in outer} -> RawInnerStates]
    /\ fds = {e.v : e \in outer}
    /\ acc = {e.v : e \in outer}
    /\ last = NoResult
    /\ batchLookupSupported = FALSE
    /\ inst = Instance("NewGroupV4OuterMap", TRUE)
    /\ probe = NoProbe
    /\ ctx = NoCtx
    /\ ListIdle

NextFlags ==
    \/ \E id \in TableIds, s \in SubscriberInputs : SubscriberInsert(id, s)
    \/ \E id \in TableIds, a \in GoodSubAddrs \cup BadSubAddrs : SubscriberLookup(id, a)
    \/ \E id \in TableIds, a \in GoodSubAddrs \cup BadSubAddrs : SubscriberDelete(id, a)
    \/ \E id \in TableIds : SubListStart(id)
    \/ SubListFetch

SpecFlags == InitFlags /\ [][NextFlags]_vars

\* bit 0 of a flags byte
Bit0(f) == f % 2 = 1

\* C15: Lookup and List report a stored subscriber as remote exactly when bit 0
\* of its flags byte is set, whatever the other seven bits are; Insert writes a
\* flags byte with at most bit 0 set and zero reserved fields.
C15_FlagDecoding ==
    /\ [](last.op = "SLookup" /\ last.err = "OK"
            => last.sub.IsRemote = Bit0(Get(inner[last.tbl], As4(last.addr)).Flags))
    /\ [](lpc = "done" /\ last.op = "SList" /\ lerr = "OK"
            => \A i \in 1..Len(out) :
                 Has(inner[last.tbl], As4(out[i].SAddr))
                    => out[i].IsRemote = Bit0(Get(inner[last.tbl], As4(out[i].SAddr)).Flags))
    /\ [][(last'.op = "SInsert" /\ last'.err = "OK")
            => LET v == Get(inner'[last'.tbl], As4(last'.addr)) IN
               /\ v.Flags = IF last'.sub.IsRemote THEN 1 ELSE 0
               /\ v.Pad1 = 0 /\ v.Pad2 = 0]_vars


----------------------------------------------------------------------------
(***************************************************************************)
(* Frame properties of Spec.                                               *)
(***************************************************************************)
\* C16: a successful Delete(g) removes the outer entry of g and nothing else: it
\* closes no handle, every inner table that remains keeps its records, the
\* tables of the other groups and the table of a held accessor remain; an
\* accessor obtained before the Delete stays usable, and an Insert through it
\* still stores its record in that table.
C16_DeleteOuterOnly ==
    /\ [][(last'.op = "GDelete" /\ last'.err = "OK")
            => /\ outer' = {e \in outer : e.k # As4(last'.addr)}
               /\ fds' = fds /\ acc' = acc
               /\ \A id \in DOMAIN inner' : inner'[id] = inner[id]
               /\ acc \subseteq DOMAIN inner'
               /\ {e.v : e \in outer'} \subseteq DOMAIN inner']_vars
    /\ [](acc \subseteq DOMAIN inner)
    /\ [][(last'.op = "SInsert" /\ last'.err = "OK")
            => /\ last'.tbl \in acc
               /\ inner'[last'.tbl] = inner[last'.tbl] \cup
                    {[k |-> As4(last'.addr), v |-> SubscriberVal(last'.sub, As4(last'.addr))]}]_vars

\* A subscriber was inserted through the accessor of a group that has been
\* deleted, while another group is registered.
C16_Witness ==
    /\ last.op = "SInsert" /\ last.err = "OK"
    /\ \A e \in outer : e.v # last.tbl
    /\ outer # {}

\* C17: two groups of the outer table never refer to the same inner table, every
\* outer entry refers to a live inner table, and an Insert or Delete of a
\* subscriber through one accessor changes the records of no other table.
C17_HandleScoping ==
    /\ [](\A e1, e2 \in outer : e1.v = e2.v => e1 = e2)
    /\ []({e.v : e \in outer} \subseteq DOMAIN inner)
    /\ [][(last'.op \in {"SInsert", "SDelete"})
            => /\ DOMAIN inner' = DOMAIN inner
               /\ \A id \in DOMAIN inner \ {last'.tbl} :
                    Subscribers(inner', id) = Subscribers(inner, id)]_vars

\* A subscriber was inserted into the table of one of two registered groups; the
\* table of the other group has no subscriber.
C17_Witness ==
    /\ last.op = "SInsert" /\ last.err = "OK"
    /\ \E e1, e2 \in outer : /\ e1.v = last.tbl
                             /\ e2.v # last.tbl
                             /\ inner[e2.v] = {}


----------------------------------------------------------------------------
(***************************************************************************)
(* Further properties of SpecList.                                         *)
(***************************************************************************)
\* C18: a batch listing (ListBatch, SubscriberV4InnerMap.List) that ends with
\* success returns every entry that its bulk fetches delivered, each once, also
\* when the entries came over two or more fetches.
C18_BatchAccumulation ==
    (lpc = "done" /\ lerr = "OK" /\ last.op \in {"ListBatch", "SList"})
        => /\ Len(out) = cursor
           /\ Range(out) = Range(Delivered)


----------------------------------------------------------------------------
(***************************************************************************)
(* SpecStall: the listings of SpecList against a table service that may     *)
(* also return from a bulk fetch with no entry, no error and the cursor     *)
(* where it was.  The service's contract allows it: a fetch returns an      *)
(* entry count and either a continuation or the end.  Such a fetch changes  *)
(* nothing but tick, so the safety properties of SpecList are not affected. *)
(* The calling context keeps running: the loop of a listing that has not    *)
(* returned takes its next iteration (weak fairness of BatchLoop).          *)
(***************************************************************************)
\* One iteration of the batch loop of the listing at position pc whose
\* BatchLookup returned (0, nil) and left cursor and buffers as they were.
EmptyFetch(pc, kind) ==
    /\ lpc = pc
    /\ LET r == [c |-> 0, err |-> "OK"]
           st == BatchLoopStep(IF kind = "groups" THEN keys ELSE vals, count, r, kind)
       IN  /\ count' = st.count
           /\ out' = st.out
           /\ lerr' = st.err
           /\ lpc' = IF st.pc = "loop" THEN pc ELSE "done"
           /\ tick' = 1 - tick
           /\ last' = [last EXCEPT !.err = r.err]
    /\ UNCHANGED <<tblVars, instVars, ctx, order, keys, vals, cursor>>

ListBatchFetchEmpty == EmptyFetch("batch", "groups")

SubListFetchEmpty == EmptyFetch("sbatch", "subs")

\* the next iteration of the loop of a running batch listing
BatchLoop ==
    \/ ListBatchFetch
    \/ ListBatchFetchEmpty
    \/ SubListFetch
    \/ SubListFetchEmpty

NextStall ==
    \/ ListStart
    \/ ListIteratorNext
    \/ \E id \in TableIds : SubListStart(id)
    \/ BatchLoop

SpecStall == InitList /\ [][NextStall]_vars /\ WF_vars(BatchLoop)

\* C19: every batch listing returns: its loop ends with success on the first
\* fetch that signals the end of the table and with failure on the first other
\* error, and every iteration that does not end the loop has advanced the cursor
\* (also an iteration whose fetch returned no entry and no error).
C19_BatchTerminates ==
    /\ (lpc \in {"batch", "sbatch"}) ~> (lpc = "done")
    /\ [][(lpc \in {"batch", "sbatch"} /\ lpc' = lpc) => cursor' > cursor]_vars
    /\ [](last.op \in {"ListBatch", "SList"} /\ last.err = "NotFound"
            => lpc = "done" /\ lerr = "OK")
    /\ [](last.op \in {"ListBatch", "SList"} /\ last.err = "Internal"
            => lpc = "done" /\ lerr = "Internal")


----------------------------------------------------------------------------
(***************************************************************************)
(* Handles held by the component, in Spec.                                  *)
(***************************************************************************)
\* C20: after a successful Insert the component holds no handle of its own to
\* the group's inner table; so whenever no accessor is outstanding, the inner
\* tables that are still referenced are exactly those of the groups in the
\* outer table, as many as there are groups.
C20_NoHandleOutlivesGroup ==
    /\ (last.op = "GInsert" /\ last.err = "OK") => last.tbl \notin fds
    /\ acc = {} => /\ DOMAIN inner = {e.v : e \in outer}
                   /\ Cardinality(DOMAIN inner) = Cardinality(outer)

=============================================================================
